---- MODULE Spec2Model ----
(***************************************************************************)
(* Model of the duration-matching schedulers of the video pipeline:        *)
(*   - DurationController.calculate_trim_instructions                     *)
(*     (src/duration_controller.py), the trim-and-loop planner;            *)
(*   - GoogleDriveHandler.find_best_video_combination                     *)
(*     (src/google_drive_handler.py), the randomized segment composer     *)
(*     with its inline free-range allocator.                               *)
(* Durations of the planner are exact rationals <<numerator, denominator>> *)
(* (the code uses floats; the model is exact arithmetic).  Times of the    *)
(* composer are integers counting half seconds.                            *)
(***************************************************************************)
EXTENDS Integers, Sequences, FiniteSets, TLC

(***************************************************************************)
(* Bounds of the model.                                                    *)
(***************************************************************************)
\* Planner: clip lists of 1..MaxClips clips of 1..MaxDur seconds, acceptable
\* intervals [a, a + w] with a in 1..MaxMin and w in 0..MaxWidth.
MaxClips == 3
MaxDur == 5
MaxMin == 7
MaxWidth == 2
\* Composer: pools of 1..MaxPool clips, the longest of MaxClipDur half
\* seconds, targets of 0..MaxTarget half seconds, min_videos in
\* 1..MaxMinVideos.
MaxPool == 2
MaxClipDur == 9
MaxTarget == 6
MaxMinVideos == 3
\* Targets of 0..MaxFairTarget half seconds where termination is checked.
MaxFairTarget == 4
\* Selector: lists of 0..MaxFiles files, min_count and max_count in
\* -1..MaxCount.
MaxFiles == 3
MaxCount == 3
\* VideoProcessor.process: audio durations 1..MaxAudio seconds, 1..MaxSelected
\* selected clips.
MaxAudio == 32
MaxSelected == 2
\* send_tiktok_request: max_retries in 0..MaxRetries.
MaxRetries == 2
\* check_upload_status: max_attempts in 0..MaxAttempts.
MaxAttempts == 11

(***************************************************************************)
(* Exact rational arithmetic.                                              *)
(***************************************************************************)
Abs(n) == IF n < 0 THEN -n ELSE n

RECURSIVE GCD(_, _)
GCD(a, b) == IF b = 0 THEN a ELSE GCD(b, a % b)

Rat(n, d) ==
    LET g == GCD(Abs(n), Abs(d))
        s == IF d < 0 THEN -1 ELSE 1
    IN  <<(s * n) \div g, (s * d) \div g>>

RInt(n) == <<n, 1>>
RAdd(x, y) == Rat(x[1] * y[2] + y[1] * x[2], x[2] * y[2])
RSub(x, y) == Rat(x[1] * y[2] - y[1] * x[2], x[2] * y[2])
RMul(x, y) == Rat(x[1] * y[1], x[2] * y[2])
RDiv(x, y) == Rat(x[1] * y[2], x[2] * y[1])
RLe(x, y) == x[1] * y[2] <= y[1] * x[2]
RLt(x, y) == x[1] * y[2] < y[1] * x[2]
RMin(x, y) == IF RLe(x, y) THEN x ELSE y
RFloor(x) == x[1] \div x[2]

RECURSIVE RSum(_)
RSum(s) == IF s = <<>> THEN RInt(0) ELSE RAdd(Head(s), RSum(Tail(s)))

(***************************************************************************)
(* State.                                                                  *)
(***************************************************************************)
VARIABLES
    dc_pc,              \* position in calculate_trim_instructions
    durations,          \* durations of the input clips, in input order
    min_duration,       \* self.min_duration
    max_duration,       \* self.max_duration
    total_duration,     \* sum(durations)
    base_loops,         \* floor(min_duration / total_duration), too-short branch
    sorted_indices,     \* clip indices, longest first
    pos,                \* position of the for loop in sorted_indices
    instructions,       \* the plan under construction / returned
    current_duration,   \* running total of the too-short walk
    branch,             \* which branch produced the plan
    partial_count,      \* per clip: how often the partial-loop branch ran
    fb_pc,              \* position in find_best_video_combination
    videos,             \* the pool: duration of each clip, clip = its index
    target_duration,    \* target, in half seconds
    min_videos,         \* minimum number of different clips
    all_videos,         \* the shuffled copy of the pool
    selected_videos,    \* all_videos[:min_videos]
    segments,           \* the segments created so far / returned
    fb_current_duration,\* current_duration of the composition loop
    last_video,         \* clip of the last appended segment, 0 for None
    video,              \* clip drawn by random.choice, 0 before the first
    segment_duration,   \* duration drawn for the segment being placed
    forbidden_ranges,   \* forbidden ranges of the drawn clip
    available_ranges,   \* available ranges computed for the drawn clip
    v_paths,            \* validate_trim_instructions: len(video_paths)
    v_instructions,     \* validate_trim_instructions: the instructions
    v_result,           \* validate_trim_instructions: the value returned
    trimmed_videos,     \* process: the trimmed clips, [clip, length]
    loop_counts,        \* process: the loop_count of every instruction
    concat_list,        \* concatenate_videos: the entries of video_list.txt
    rs_pc,              \* position in select_random_videos
    video_files,        \* the list of file names to choose from
    min_count,          \* minimum number of files to select
    max_count,          \* maximum number of files to select
    selection_count,    \* the count drawn by random.randint
    rs_selected_videos, \* the selected list positions, in selection order
    tt_pc,              \* position in send_tiktok_request
    tt_max_retries,     \* the max_retries argument of the call
    tt_retry,           \* the retry argument of the call
    tt_has_auth,        \* headers is given and holds "Authorization"
    tt_stack,           \* the active calls: the call and its recursive retry
    tt_requests,        \* number of HTTP requests sent so far
    tt_refreshes,       \* number of calls of refresh_token_and_update_env
    tt_result,          \* the value returned
    cu_pc,              \* position in check_upload_status
    cu_max_attempts,    \* the max_attempts argument
    cu_attempt,         \* the poll counter
    cu_status,          \* the last status the API reported
    cu_poll_failed,     \* the last poll failed before a status was read
    cu_result           \* the value returned

dcvars == <<dc_pc, durations, min_duration, max_duration, total_duration,
            base_loops, sorted_indices, pos, instructions, current_duration,
            branch, partial_count>>

fbvars == <<fb_pc, videos, target_duration, min_videos, all_videos,
            selected_videos, segments, fb_current_duration, last_video, video,
            segment_duration, forbidden_ranges, available_ranges>>

ppvars == <<v_paths, v_instructions, v_result, trimmed_videos, loop_counts,
            concat_list>>

rsvars == <<rs_pc, video_files, min_count, max_count, selection_count,
            rs_selected_videos>>

ttvars == <<tt_pc, tt_max_retries, tt_retry, tt_has_auth, tt_stack,
            tt_requests, tt_refreshes, tt_result>>

cuvars == <<cu_pc, cu_max_attempts, cu_attempt, cu_status, cu_poll_failed,
            cu_result>>

vars == <<dcvars, fbvars, ppvars, rsvars, ttvars, cuvars>>

\* What a step of one routine leaves alone: the state of the others.
DC_Frame == UNCHANGED <<fbvars, ppvars, rsvars, ttvars, cuvars>>
FB_Frame == UNCHANGED <<dcvars, ppvars, rsvars, ttvars, cuvars>>
TT_Frame == UNCHANGED <<dcvars, fbvars, ppvars, rsvars, cuvars>>
CU_Frame == UNCHANGED <<dcvars, fbvars, ppvars, rsvars, ttvars>>
PP_Frame == UNCHANGED <<fbvars, rsvars, ttvars, cuvars, durations, min_duration, max_duration,
                        total_duration, base_loops, sorted_indices, pos,
                        instructions, current_duration, branch, partial_count>>
RS_Frame == UNCHANGED <<dcvars, fbvars, ppvars, ttvars, cuvars>>

(***************************************************************************)
(* DurationController                                                      *)
(***************************************************************************)
\* The acceptable intervals the controller is constructed with: small ones,
\* and the default [21, 28].
Intervals ==
    {<<RInt(a), RInt(a + w)>> : a \in 1..MaxMin, w \in 0..MaxWidth}
        \cup {<<RInt(21), RInt(28)>>}

ClipLists == UNION {[1..n -> {RInt(d) : d \in 1..MaxDur}] : n \in 1..MaxClips}

Instruction(s, e, l) == [start_time |-> s, end_time |-> e, loop_count |-> l]

\* sum((end_time - start_time) * loop_count for instr in instructions)
PlanTotal(instrs) ==
    RSum([i \in 1..Len(instrs) |->
            RMul(RSub(instrs[i].end_time, instrs[i].start_time),
                 RInt(instrs[i].loop_count))])

\* sorted(range(n), key=lambda k: durations[k], reverse=True): descending
\* duration; the sort is stable, equal durations keep input order.
SortedIndices_TiesReversed(durs) ==
    LET n == Len(durs)
    IN  CHOOSE p \in [1..n -> 1..n] :
          /\ \A i, j \in 1..n : i # j => p[i] # p[j]
          /\ \A i, j \in 1..n : i < j =>
                \/ RLt(durs[p[j]], durs[p[i]])
                \/ durs[p[i]] = durs[p[j]] /\ p[i] > p[j]
SortedIndices(durs) ==
    LET n == Len(durs)
    IN  CHOOSE p \in [1..n -> 1..n] :
          /\ \A i, j \in 1..n : i # j => p[i] # p[j]
          /\ \A i, j \in 1..n : i < j =>
                \/ RLt(durs[p[j]], durs[p[i]])
                \/ durs[p[i]] = durs[p[j]] /\ p[i] < p[j]

IdentityPlan_Reversed(durs) ==
    [i \in 1..Len(durs) |-> Instruction(RInt(0), durs[Len(durs) + 1 - i], 1)]
IdentityPlan(durs) ==
    [i \in 1..Len(durs) |-> Instruction(RInt(0), durs[i], 1)]

BasePlan_Sorted(durs, loops) ==
    [i \in 1..Len(durs) |->
        Instruction(RInt(0), durs[SortedIndices(durs)[i]], loops)]
BasePlan(durs, loops) ==
    [i \in 1..Len(durs) |-> Instruction(RInt(0), durs[i], loops)]

\* Line 102: target_duration = (min_duration + max_duration) / 2.
TrimTarget_Upper(lo, hi) == hi
TrimTarget(lo, hi) == RDiv(RAdd(lo, hi), RInt(2))

\* The too-long branch: proportional, symmetric trimming to the midpoint.
TrimPlan_EndOnly(durs, total, lo, hi) ==
    LET trim_target     == RDiv(RAdd(lo, hi), RInt(2))
        excess_duration == RSub(total, trim_target)
        trim_amount(i)  == RMul(RDiv(durs[i], total), excess_duration)
        trim_per_side(i) == RDiv(trim_amount(i), RInt(2))
    IN  [i \in 1..Len(durs) |->
            Instruction(trim_per_side(i), RSub(durs[i], trim_amount(i)), 1)]
TrimPlan_FullExcess(durs, total, lo, hi) ==
    LET trim_target     == RDiv(RAdd(lo, hi), RInt(2))
        excess_duration == RSub(total, trim_target)
        trim_per_side   == RDiv(excess_duration, RInt(2))
    IN  [i \in 1..Len(durs) |->
            Instruction(trim_per_side, RSub(durs[i], trim_per_side), 1)]
TrimPlan(durs, total, lo, hi) ==
    LET trim_target     == TrimTarget(lo, hi)
        excess_duration == RSub(total, trim_target)
        trim_amount(i)  == RMul(RDiv(durs[i], total), excess_duration)
        trim_per_side(i) == RDiv(trim_amount(i), RInt(2))
    IN  [i \in 1..Len(durs) |->
            Instruction(trim_per_side(i), RSub(durs[i], trim_per_side(i)), 1)]

InBounds(x, lo, hi) == RLe(lo, x) /\ RLe(x, hi)

\* Line 73: the walk stops once the running total reached min_duration.
WalkDone_NeverBreaks(cur, lo) == FALSE
WalkDone(cur, lo) == ~RLt(cur, lo)

\* Line 80: one more complete loop does not exceed max_duration.
FullLoopFits_Never(cur, d, hi) == FALSE
FullLoopFits(cur, d, hi) == RLe(RAdd(cur, d), hi)

\* Line 86: partial_duration = min(remaining, durations[idx]).
PartialDuration_WholeClip(remaining, d) == d
PartialDuration(remaining, d) == RMin(remaining, d)

DC_Init ==
    /\ dc_pc = "call"
    /\ durations \in ClipLists
    /\ \E iv \in Intervals : min_duration = iv[1] /\ max_duration = iv[2]
    /\ total_duration = RInt(0)
    /\ base_loops = 0
    /\ sorted_indices = <<>>
    /\ pos = 1
    /\ instructions = <<>>
    /\ current_duration = RInt(0)
    /\ branch = "none"
    /\ partial_count = <<>>

\* Lines 37-48: total is already inside the bounds, identity plan.
DC_Identity ==
    /\ dc_pc = "call"
    /\ LET total == RSum(durations) IN
        /\ InBounds(total, min_duration, max_duration)
        /\ total_duration' = total
        /\ instructions' = IdentityPlan(durations)
    /\ branch' = "identity"
    /\ dc_pc' = "returned"
    /\ partial_count' = [i \in 1..Len(durations) |-> 0]
    /\ UNCHANGED <<durations, min_duration, max_duration, base_loops,
                   sorted_indices, pos, current_duration>>
    /\ DC_Frame

\* Lines 50-71: total too short, base loops for every clip, start of the walk.
DC_StartLoop ==
    /\ dc_pc = "call"
    /\ LET total == RSum(durations) IN
        /\ ~InBounds(total, min_duration, max_duration)
        /\ RLt(total, min_duration)
        /\ total_duration' = total
        /\ base_loops' = RFloor(RDiv(min_duration, total))
        /\ instructions' = BasePlan(durations, RFloor(RDiv(min_duration, total)))
        /\ current_duration' = RMul(total, RInt(RFloor(RDiv(min_duration, total))))
    /\ sorted_indices' = SortedIndices(durations)
    /\ pos' = 1
    /\ branch' = "loop"
    /\ dc_pc' = "walk"
    /\ partial_count' = [i \in 1..Len(durations) |-> 0]
    /\ UNCHANGED <<durations, min_duration, max_duration>>
    /\ DC_Frame

\* Lines 72-83: one more complete loop of the clip fits below max_duration.
DC_FullLoop ==
    /\ dc_pc = "walk"
    /\ pos <= Len(sorted_indices)
    /\ ~WalkDone(current_duration, min_duration)
    /\ LET idx == sorted_indices[pos] IN
        /\ FullLoopFits(current_duration, durations[idx], max_duration)
        /\ instructions' = [instructions EXCEPT ![idx].loop_count = @ + 1]
        /\ current_duration' = RAdd(current_duration, durations[idx])
    /\ pos' = pos + 1
    /\ UNCHANGED <<dc_pc, durations, min_duration, max_duration,
                   total_duration, base_loops, sorted_indices, branch,
                   partial_count>>
    /\ DC_Frame

\* Lines 84-90: a partial loop of the clip.
DC_PartialLoop ==
    /\ dc_pc = "walk"
    /\ pos <= Len(sorted_indices)
    /\ ~WalkDone(current_duration, min_duration)
    /\ LET idx == sorted_indices[pos]
           remaining == RSub(min_duration, current_duration)
           partial_duration == PartialDuration(remaining, durations[idx])
       IN
        /\ ~FullLoopFits(current_duration, durations[idx], max_duration)
        /\ instructions' = [instructions EXCEPT
                              ![idx].loop_count = @ + 1,
                              ![idx].end_time = partial_duration]
        /\ current_duration' = RAdd(current_duration, partial_duration)
        /\ partial_count' = [partial_count EXCEPT ![idx] = @ + 1]
    /\ pos' = pos + 1
    /\ UNCHANGED <<dc_pc, durations, min_duration, max_duration,
                   total_duration, base_loops, sorted_indices, branch>>
    /\ DC_Frame

\* Lines 73-74 and 92-99: the walk ends (break, or indices exhausted).
DC_ReturnLoop ==
    /\ dc_pc = "walk"
    /\ \/ pos > Len(sorted_indices)
       \/ WalkDone(current_duration, min_duration)
    /\ dc_pc' = "returned"
    /\ UNCHANGED <<durations, min_duration, max_duration, total_duration,
                   base_loops, sorted_indices, pos, instructions,
                   current_duration, branch, partial_count>>
    /\ DC_Frame

\* Lines 101-134: total too long, trim every clip.
DC_Trim ==
    /\ dc_pc = "call"
    /\ LET total == RSum(durations) IN
        /\ ~InBounds(total, min_duration, max_duration)
        /\ ~RLt(total, min_duration)
        /\ total_duration' = total
        /\ instructions' = TrimPlan(durations, total, min_duration, max_duration)
    /\ branch' = "trim"
    /\ dc_pc' = "returned"
    /\ partial_count' = [i \in 1..Len(durations) |-> 0]
    /\ UNCHANGED <<durations, min_duration, max_duration, base_loops,
                   sorted_indices, pos, current_duration>>
    /\ DC_Frame

\* DurationController(audio_duration), as VideoProcessor.process constructs it:
\* min_duration is the audio duration, max_duration keeps its default.
DefaultMaxDuration == 28

AudioDurations == 1..MaxAudio

ProcessIntervals ==
    {<<RInt(a), RInt(DefaultMaxDuration)>> : a \in AudioDurations}

\* The clips select_random_videos hands over: short ones and one long one.
SelectedClipLists ==
    UNION {[1..n -> {RInt(d) : d \in (1..MaxDur) \cup {30}}] :
              n \in 1..MaxSelected}

VP_Init ==
    /\ dc_pc = "call"
    /\ durations \in SelectedClipLists
    /\ \E iv \in ProcessIntervals :
          min_duration = iv[1] /\ max_duration = iv[2]
    /\ total_duration = RInt(0)
    /\ base_loops = 0
    /\ sorted_indices = <<>>
    /\ pos = 1
    /\ instructions = <<>>
    /\ current_duration = RInt(0)
    /\ branch = "none"
    /\ partial_count = <<>>

\* validate_trim_instructions(video_paths, instructions), lines 136-155.
validate_trim_instructions_TotalOnly(n_paths, instrs, lo, hi) ==
    InBounds(PlanTotal(instrs), lo, hi)
validate_trim_instructions(n_paths, instrs, lo, hi) ==
    IF n_paths # Len(instrs) THEN FALSE
    ELSE InBounds(PlanTotal(instrs), lo, hi)

\* The lists validate_trim_instructions is applied to: the returned plan and
\* its prefixes (the test passes an empty list), against any number of paths.
DC_Validate ==
    /\ dc_pc = "returned"
    /\ \E n \in 0..(Len(durations) + 1), k \in 0..Len(instructions) :
        /\ v_paths' = n
        /\ v_instructions' = SubSeq(instructions, 1, k)
        /\ v_result' = validate_trim_instructions(
                           n, SubSeq(instructions, 1, k),
                           min_duration, max_duration)
    /\ dc_pc' = "validated"
    /\ UNCHANGED <<trimmed_videos, loop_counts, concat_list>>
    /\ PP_Frame

(***************************************************************************)
(* VideoProcessor.process on local files, from the plan to the list of     *)
(* files handed to the concatenation (src/main.py, src/video_connector.py).*)
(***************************************************************************)
\* main.py lines 177-182: the trimmed copy of clip i covers
\* [start_time, end_time].
TrimmedVideos(instrs) ==
    [i \in 1..Len(instrs) |->
        [clip |-> i,
         length |-> RSub(instrs[i].end_time, instrs[i].start_time)]]

\* main.py line 183: loop_counts.append(instructions['loop_count']).
LoopCounts(instrs) == [i \in 1..Len(instrs) |-> instrs[i].loop_count]

\* main.py line 194: the loop_counts argument passed to concatenate_videos.
PassedLoopCounts(files, counts) == [i \in 1..Len(files) |-> 1]

\* video_connector.py lines 140-142: every file is written count times.
RECURSIVE ConcatList(_, _)
ConcatList(files, counts) ==
    IF files = <<>> \/ counts = <<>> THEN <<>>
    ELSE [k \in 1..Head(counts) |-> Head(files)]
            \o ConcatList(Tail(files), Tail(counts))

\* The duration of the concatenation of the listed files.
RECURSIVE TimelineDuration(_)
TimelineDuration(list) ==
    IF list = <<>> THEN RInt(0)
    ELSE RAdd(Head(list).length, TimelineDuration(Tail(list)))

\* main.py lines 168-195 with video_connector.py lines 134-142.
VP_Materialize ==
    /\ dc_pc = "returned"
    /\ trimmed_videos' = TrimmedVideos(instructions)
    /\ loop_counts' = LoopCounts(instructions)
    /\ concat_list' = ConcatList(TrimmedVideos(instructions),
                                 PassedLoopCounts(TrimmedVideos(instructions),
                                                  LoopCounts(instructions)))
    /\ dc_pc' = "concatenated"
    /\ UNCHANGED <<v_paths, v_instructions, v_result>>
    /\ PP_Frame

DC_Next ==
    \/ DC_Identity
    \/ DC_StartLoop
    \/ DC_FullLoop
    \/ DC_PartialLoop
    \/ DC_ReturnLoop
    \/ DC_Trim
    \/ DC_Validate
    \/ VP_Materialize

(***************************************************************************)
(* select_random_videos (src/random_selector.py)                           *)
(***************************************************************************)
FileNames == {"a.mp4", "b.mp4"}

FileLists == UNION {[1..n -> FileNames] : n \in 0..MaxFiles}

\* Line 26: fewer files than min_count.
NotEnoughFiles(n, m) == n < m

\* random.randint(a, b): an integer of a..b.
RandInt(a, b) == a..b

\* random.sample(population, k) for 0 <= k <= n: k different positions of the
\* population, in any order.
Sample_WithReplacement(n, k) == [1..k -> 1..n]
Sample(n, k) ==
    {q \in [1..k -> 1..n] : \A i, j \in 1..k : i # j => q[i] # q[j]}

RS_Init ==
    /\ rs_pc = "call"
    /\ video_files \in FileLists
    /\ min_count \in -1..MaxCount
    /\ max_count \in -1..MaxCount
    /\ selection_count = 0
    /\ rs_selected_videos = <<>>

\* Lines 20-21.
RS_RaiseEmpty ==
    /\ rs_pc = "call"
    /\ video_files = <<>>
    /\ rs_pc' = "raised"
    /\ UNCHANGED <<video_files, min_count, max_count, selection_count,
                   rs_selected_videos>>
    /\ RS_Frame

\* Lines 23-24.
RS_RaiseMinMax ==
    /\ rs_pc = "call"
    /\ video_files # <<>>
    /\ min_count > max_count
    /\ rs_pc' = "raised"
    /\ UNCHANGED <<video_files, min_count, max_count, selection_count,
                   rs_selected_videos>>
    /\ RS_Frame

\* Lines 26-27.
RS_RaiseNotEnough ==
    /\ rs_pc = "call"
    /\ video_files # <<>>
    /\ ~(min_count > max_count)
    /\ NotEnoughFiles(Len(video_files), min_count)
    /\ rs_pc' = "raised"
    /\ UNCHANGED <<video_files, min_count, max_count, selection_count,
                   rs_selected_videos>>
    /\ RS_Frame

\* Line 30: the number of files to select.
RS_Count ==
    /\ rs_pc = "call"
    /\ video_files # <<>>
    /\ ~(min_count > max_count)
    /\ ~NotEnoughFiles(Len(video_files), min_count)
    /\ selection_count' \in
          RandInt(min_count,
                  IF max_count <= Len(video_files) THEN max_count
                  ELSE Len(video_files))
    /\ rs_pc' = "counted"
    /\ UNCHANGED <<video_files, min_count, max_count, rs_selected_videos>>
    /\ RS_Frame

\* Lines 33-35: the sample is drawn and returned.
RS_Sample ==
    /\ rs_pc = "counted"
    /\ 0 <= selection_count
    /\ selection_count <= Len(video_files)
    /\ rs_selected_videos' \in Sample(Len(video_files), selection_count)
    /\ rs_pc' = "returned"
    /\ UNCHANGED <<video_files, min_count, max_count, selection_count>>
    /\ RS_Frame

\* Line 33: random.sample raises ValueError for a negative count, or one
\* larger than the population.
RS_SampleRaises ==
    /\ rs_pc = "counted"
    /\ ~(0 <= selection_count /\ selection_count <= Len(video_files))
    /\ rs_pc' = "raised"
    /\ UNCHANGED <<video_files, min_count, max_count, selection_count,
                   rs_selected_videos>>
    /\ RS_Frame

RS_Next ==
    \/ RS_RaiseEmpty
    \/ RS_RaiseMinMax
    \/ RS_RaiseNotEnough
    \/ RS_Count
    \/ RS_Sample
    \/ RS_SampleRaises

(***************************************************************************)
(* GoogleDriveHandler.find_best_video_combination                          *)
(* Times are integers counting half seconds.                               *)
(***************************************************************************)
\* random.uniform(1.0, min(1.5, remaining)): segments last 1.0 to 1.5 s.
MinSegment == 2
MaxSegment == 3
\* The buffer of 2 s kept around the existing segments of a clip.
Buffer == 4

Max2(a, b) == IF a >= b THEN a ELSE b
Min2(a, b) == IF a <= b THEN a ELSE b

\* Clip durations of the pools: a clip too short for any segment (0.5 s), a
\* clip of 2 s, and a long clip.
ClipDurations == {1, 4, MaxClipDur}

Pools == UNION {[1..n -> ClipDurations] : n \in 1..MaxPool}

\* random.shuffle: every order of the pool.
Shuffles(n) == {p \in [1..n -> 1..n] : \A i, j \in 1..n : i # j => p[i] # p[j]}

\* Lines 214-220.  The speed_up flag (line 219) is an independent coin flip
\* that enters no duration or placement computation; it is not recorded.
Segment(v, s, e, d) ==
    [video |-> v, start |-> s, end |-> e, duration |-> d]

RECURSIVE SumDurations(_)
SumDurations(segs) ==
    IF segs = <<>> THEN 0 ELSE Head(segs).duration + SumDurations(Tail(segs))

\* Lines 176-179: the duration of the next segment.
SegmentDurations_ShortAllowed(remaining) == 1..Min2(MaxSegment, remaining)
SegmentDurations_NoClosing(remaining) == MinSegment..MaxSegment
SegmentDurations(remaining) ==
    IF remaining <= MinSegment THEN {remaining}
    ELSE MinSegment..Min2(MaxSegment, remaining)

\* Lines 184-191: the forbidden ranges of clip v, in segment order.
ForbiddenRanges(segs, v, dur) ==
    LET existing_segments == SelectSeq(segs, LAMBDA s : s.video = v)
    IN  [k \in 1..Len(existing_segments) |->
            <<Max2(0, existing_segments[k].start - Buffer),
              Min2(dur, existing_segments[k].end + Buffer)>>]

\* sorted(forbidden_ranges): tuples in lexicographic order.
RangeLe(a, b) == a[1] < b[1] \/ (a[1] = b[1] /\ a[2] <= b[2])

RECURSIVE Insert(_, _)
Insert(r, sorted) ==
    IF sorted = <<>> THEN <<r>>
    ELSE IF RangeLe(r, Head(sorted)) THEN <<r>> \o sorted
    ELSE <<Head(sorted)>> \o Insert(r, Tail(sorted))

RECURSIVE Sorted(_)
Sorted(ranges) ==
    IF ranges = <<>> THEN <<>> ELSE Insert(Head(ranges), Sorted(Tail(ranges)))

\* Lines 195-202: one forbidden range against the last available range.
SweepStep(avail, f) ==
    LET last_start == avail[Len(avail)][1]
        last_end   == avail[Len(avail)][2]
        cut == IF f[1] > last_start
               THEN [avail EXCEPT ![Len(avail)] = <<last_start, f[1]>>]
               ELSE avail
    IN  IF f[2] < last_end THEN Append(cut, <<f[2], last_end>>) ELSE cut

RECURSIVE Sweep(_, _)
Sweep(avail, forb) ==
    IF forb = <<>> \/ avail = <<>> THEN avail
    ELSE Sweep(SweepStep(avail, Head(forb)), Tail(forb))

\* Lines 194-202: the available ranges of a clip.
AvailableRanges(max_start, forbidden) ==
    Sweep(<<<<0, max_start>>>>, Sorted(forbidden))

\* Line 209: the available ranges long enough for the segment.
ValidRanges_Unfiltered(avail, seg_dur) == avail
ValidRanges(avail, seg_dur) ==
    SelectSeq(avail, LAMBDA r : r[2] - r[1] >= seg_dur)

\* Line 172: the drawn clip is accepted when it differs from last_video.
Accepted_Any(v, last) == TRUE
Accepted(v, last) == v # last

\* Line 148: the pool has fewer clips than min_videos.
NotEnoughVideos_OrEqual(n, m) == n <= m
NotEnoughVideos(n, m) == n < m

\* random.uniform(a, b) on the grid: a + (b - a) * random(), a value between
\* the two arguments whichever is larger.
Uniform(a, b) == Min2(a, b)..Max2(a, b)

\* Line 162: selected_videos = all_videos[:min_videos].
ActiveSet_FirstOnly(shuffled, m) == SubSeq(shuffled, 1, 1)
ActiveSet(shuffled, m) == SubSeq(shuffled, 1, m)

FB_Init ==
    /\ fb_pc = "call"
    /\ videos \in Pools
    /\ target_duration \in 0..MaxTarget
    /\ min_videos \in 1..MaxMinVideos
    /\ all_videos = <<>>
    /\ selected_videos = <<>>
    /\ segments = <<>>
    /\ fb_current_duration = 0
    /\ last_video = 0
    /\ video = 0
    /\ segment_duration = 0
    /\ forbidden_ranges = <<>>
    /\ available_ranges = <<>>

\* Lines 148-149: the pool is smaller than min_videos.
FB_Raise ==
    /\ fb_pc = "call"
    /\ NotEnoughVideos(Len(videos), min_videos)
    /\ fb_pc' = "raised"
    /\ UNCHANGED <<videos, target_duration, min_videos, all_videos,
                   selected_videos, segments, fb_current_duration, last_video,
                   video, segment_duration, forbidden_ranges, available_ranges>>
    /\ FB_Frame

\* Lines 151-162: shuffle the pool and take the first min_videos clips.
FB_Shuffle ==
    /\ fb_pc = "call"
    /\ ~NotEnoughVideos(Len(videos), min_videos)
    /\ \E p \in Shuffles(Len(videos)) :
        /\ all_videos' = p
        /\ selected_videos' = ActiveSet(p, min_videos)
    /\ fb_pc' = "while"
    /\ UNCHANGED <<videos, target_duration, min_videos, segments,
                   fb_current_duration, last_video, video, segment_duration,
                   forbidden_ranges, available_ranges>>
    /\ FB_Frame

\* Line 165: the loop condition is false, the segments are returned.
FB_WhileExit ==
    /\ fb_pc = "while"
    /\ ~(fb_current_duration < target_duration)
    /\ fb_pc' = "returned"
    /\ UNCHANGED <<videos, target_duration, min_videos, all_videos,
                   selected_videos, segments, fb_current_duration, last_video,
                   video, segment_duration, forbidden_ranges, available_ranges>>
    /\ FB_Frame

\* Lines 165-173: random.choice(selected_videos), reached from the loop
\* condition or, again, after the drawn clip turned out to be last_video.
FB_Choice ==
    /\ \/ fb_pc = "while" /\ fb_current_duration < target_duration
       \/ fb_pc = "picked" /\ ~Accepted(video, last_video)
    /\ \E k \in 1..Len(selected_videos) : video' = selected_videos[k]
    /\ fb_pc' = "picked"
    /\ UNCHANGED <<videos, target_duration, min_videos, all_videos,
                   selected_videos, segments, fb_current_duration, last_video,
                   segment_duration, forbidden_ranges, available_ranges>>
    /\ FB_Frame

\* Lines 175-202: draw the segment duration, compute the available ranges.
FB_Duration ==
    /\ fb_pc = "picked"
    /\ Accepted(video, last_video)
    /\ LET remaining == target_duration - fb_current_duration IN
       \E d \in SegmentDurations(remaining) :
        LET max_start == videos[video] - d
            forbidden == ForbiddenRanges(segments, video, videos[video])
        IN  /\ segment_duration' = d
            /\ forbidden_ranges' = forbidden
            /\ available_ranges' = AvailableRanges(max_start, forbidden)
    /\ fb_pc' = "alloc"
    /\ UNCHANGED <<videos, target_duration, min_videos, all_videos,
                   selected_videos, segments, fb_current_duration, last_video,
                   video>>
    /\ FB_Frame

\* Lines 204-206: no available range is long enough, try another clip.
FB_Continue ==
    /\ fb_pc = "alloc"
    /\ ValidRanges(available_ranges, segment_duration) = <<>>
    /\ fb_pc' = "while"
    /\ UNCHANGED <<videos, target_duration, min_videos, all_videos,
                   selected_videos, segments, fb_current_duration, last_video,
                   video, segment_duration, forbidden_ranges, available_ranges>>
    /\ FB_Frame

\* Line 227: the loop is left once the target is reached or exceeded.
ReachedTarget_WithinMargin(reached, target) == reached >= target - 1
ReachedTarget(reached, target) == reached >= target

\* Lines 229-232: shrink the last segment by the overage.
AdjustLast(segs, overage) ==
    [segs EXCEPT ![Len(segs)].end = @ - overage,
                 ![Len(segs)].duration = @ - overage]

\* Lines 208-233: place the segment, append it, leave the loop at the target.
FB_Place ==
    /\ fb_pc = "alloc"
    /\ LET valid_ranges == ValidRanges(available_ranges, segment_duration) IN
       /\ valid_ranges # <<>>
       /\ \E k \in 1..Len(valid_ranges) :
          \E start_time \in
                Uniform(valid_ranges[k][1],
                        valid_ranges[k][2] - segment_duration) :
            LET segment == Segment(video, start_time,
                                   start_time + segment_duration,
                                   segment_duration)
                appended == Append(segments, segment)
                reached == fb_current_duration + segment_duration
            IN  /\ fb_current_duration' = reached
                /\ segments' = IF /\ ReachedTarget(reached, target_duration)
                                  /\ reached > target_duration
                               THEN AdjustLast(appended, reached - target_duration)
                               ELSE appended
                /\ fb_pc' = IF ReachedTarget(reached, target_duration)
                            THEN "returned" ELSE "while"
    /\ last_video' = video
    /\ UNCHANGED <<videos, target_duration, min_videos, all_videos,
                   selected_videos, video, segment_duration, forbidden_ranges,
                   available_ranges>>
    /\ FB_Frame

\* Lines 170-173: random.choice draws a clip that differs from last_video.
FB_ChoiceAccepted == FB_Choice /\ Accepted(video', last_video)

FB_Next ==
    \/ FB_Raise
    \/ FB_Shuffle
    \/ FB_WhileExit
    \/ FB_Choice
    \/ FB_Duration
    \/ FB_Continue
    \/ FB_Place

(***************************************************************************)
(* send_tiktok_request (src/upload_video_to_tiktok.py)                     *)
(***************************************************************************)
\* Line 11: max_retries=3, also the value of the recursive call of line 48,
\* which does not pass max_retries on.
DefaultMaxRetries == 3

\* One call of send_tiktok_request: its loop counter, last_error (set or
\* not), its retry argument and its max_retries.
Call(r, m) ==
    [attempt |-> 0, last_error |-> FALSE, retry |-> r, max_retries |-> m]

TT_Top == tt_stack[Len(tt_stack)]

\* The loop counter of the running call moves on (continue).
Continue(stack) == [stack EXCEPT ![Len(stack)].attempt = @ + 1]

\* Lines 51-55 and 65-69: another attempt is left in the running call.
AttemptLeft(call) == call.attempt < call.max_retries - 1

\* An exception leaves the running call.  The first call raises it to the
\* caller; the exception of the recursive call of line 48 is caught at
\* line 49 of the first call, which goes on with its next attempt or, at its
\* last attempt, raises it (line 55).
RECURSIVE Raised(_)
Raised(stack) ==
    IF Len(stack) = 1 THEN [pc |-> "raised", stack |-> stack]
    ELSE LET caller == SubSeq(stack, 1, Len(stack) - 1)
         IN  IF AttemptLeft(caller[Len(caller)])
             THEN [pc |-> "loop", stack |-> Continue(caller)]
             ELSE Raised(caller)

\* Line 72: after the loop, last_error is raised when it is set.
AfterLoop(call) == call.last_error

TT_Init ==
    /\ tt_pc = "loop"
    /\ tt_max_retries \in 0..MaxRetries
    /\ tt_retry \in BOOLEAN
    /\ tt_has_auth \in BOOLEAN
    /\ tt_stack = <<Call(tt_retry, tt_max_retries)>>
    /\ tt_requests = 0
    /\ tt_refreshes = 0
    /\ tt_result = "unset"

TT_Sending == tt_pc = "loop" /\ TT_Top.attempt < TT_Top.max_retries

\* Lines 32-39: the response passes raise_for_status and is returned; the
\* first call returns what its recursive call returned (line 48).
TT_Return ==
    /\ TT_Sending
    /\ tt_requests' = tt_requests + 1
    /\ tt_pc' = "returned"
    /\ tt_result' = "response"
    /\ UNCHANGED <<tt_max_retries, tt_retry, tt_has_auth, tt_stack,
                   tt_refreshes>>
    /\ TT_Frame

\* Lines 56-59: HTTP 500, the next attempt.
TT_ServerError ==
    /\ TT_Sending
    /\ tt_requests' = tt_requests + 1
    /\ tt_stack' = Continue(tt_stack)
    /\ UNCHANGED <<tt_pc, tt_max_retries, tt_retry, tt_has_auth, tt_result,
                   tt_refreshes>>
    /\ TT_Frame

\* Line 60: the HTTPError is raised again: a status other than 401 and 500
\* (403 here), a 401 when retry is off, or a 401 whose token was refreshed
\* while the headers hold no Authorization entry (line 45).
TT_HTTPError ==
    /\ TT_Sending
    /\ \E status \in {401, 403} :
          \/ (status = 403 \/ ~TT_Top.retry) /\ UNCHANGED tt_refreshes
          \/ /\ status = 401
             /\ TT_Top.retry
             /\ ~tt_has_auth
             /\ tt_refreshes' = tt_refreshes + 1
    /\ tt_requests' = tt_requests + 1
    /\ tt_pc' = Raised(tt_stack).pc
    /\ tt_stack' = Raised(tt_stack).stack
    /\ UNCHANGED <<tt_max_retries, tt_retry, tt_has_auth, tt_result>>
    /\ TT_Frame

\* Lines 41-44 and 49-55: HTTP 401 with retry on, the token refresh fails.
TT_RefreshFails ==
    /\ TT_Sending
    /\ TT_Top.retry
    /\ tt_requests' = tt_requests + 1
    /\ tt_refreshes' = tt_refreshes + 1
    /\ IF AttemptLeft(TT_Top)
       THEN /\ tt_pc' = "loop"
            /\ tt_stack' = Continue(tt_stack)
       ELSE /\ tt_pc' = Raised(tt_stack).pc
            /\ tt_stack' = Raised(tt_stack).stack
    /\ UNCHANGED <<tt_max_retries, tt_retry, tt_has_auth, tt_result>>
    /\ TT_Frame

\* Lines 41-48: HTTP 401 with retry on, the token is refreshed and the
\* request is sent again by a recursive call with retry=False.
TT_Recurse ==
    /\ TT_Sending
    /\ TT_Top.retry
    /\ tt_has_auth
    /\ tt_requests' = tt_requests + 1
    /\ tt_refreshes' = tt_refreshes + 1
    /\ tt_stack' = Append(tt_stack, Call(FALSE, DefaultMaxRetries))
    /\ UNCHANGED <<tt_pc, tt_max_retries, tt_retry, tt_has_auth, tt_result>>
    /\ TT_Frame

\* Lines 62-69: ConnectionError or Timeout.
TT_NetworkError ==
    /\ TT_Sending
    /\ tt_requests' = tt_requests + 1
    /\ LET noted == [tt_stack EXCEPT ![Len(tt_stack)].last_error = TRUE] IN
       IF AttemptLeft(TT_Top)
       THEN /\ tt_pc' = "loop"
            /\ tt_stack' = Continue(noted)
       ELSE /\ tt_pc' = Raised(noted).pc
            /\ tt_stack' = Raised(noted).stack
    /\ UNCHANGED <<tt_max_retries, tt_retry, tt_has_auth, tt_result,
                   tt_refreshes>>
    /\ TT_Frame

\* Lines 71-73: the loop is over; last_error is raised if there is one,
\* otherwise the function ends without a return statement.
TT_Exhausted ==
    /\ tt_pc = "loop"
    /\ ~(TT_Top.attempt < TT_Top.max_retries)
    /\ IF AfterLoop(TT_Top)
       THEN /\ tt_pc' = Raised(tt_stack).pc
            /\ tt_stack' = Raised(tt_stack).stack
            /\ UNCHANGED tt_result
       ELSE /\ tt_pc' = "returned"
            /\ tt_result' = "None"
            /\ UNCHANGED tt_stack
    /\ UNCHANGED <<tt_max_retries, tt_retry, tt_has_auth, tt_requests,
                   tt_refreshes>>
    /\ TT_Frame

TT_Next ==
    \/ TT_Return
    \/ TT_ServerError
    \/ TT_HTTPError
    \/ TT_RefreshFails
    \/ TT_Recurse
    \/ TT_NetworkError
    \/ TT_Exhausted

(***************************************************************************)
(* check_upload_status (src/upload_video_to_tiktok.py)                     *)
(***************************************************************************)
\* Line 156: a PROCESSING_UPLOAD status counts as success from this poll on.
ProcessingSuccessAfter == 10
\* Line 167: an exception counts as success from this poll on.
AssumedSuccessAfter == 5

\* Lines 164-170: the handler of every exception raised inside the loop.
OnException(attempt) ==
    IF attempt >= AssumedSuccessAfter
    THEN [pc |-> "returned", result |-> "assumed_success"]
    ELSE [pc |-> "raised", result |-> "unset"]

CU_Init ==
    /\ cu_pc = "loop"
    /\ cu_max_attempts \in 0..MaxAttempts
    /\ cu_attempt = 0
    /\ cu_status = "unset"
    /\ cu_poll_failed = FALSE
    /\ cu_result = "unset"

CU_Polling == cu_pc = "loop" /\ cu_attempt < cu_max_attempts

\* Lines 148-150: status SUCCESS, the API result is returned.
CU_Success ==
    /\ CU_Polling
    /\ cu_status' = "SUCCESS"
    /\ cu_poll_failed' = FALSE
    /\ cu_pc' = "returned"
    /\ cu_result' = "result"
    /\ UNCHANGED <<cu_max_attempts, cu_attempt>>
    /\ CU_Frame

\* Lines 151-152 and 164-170: status ERROR or FAILED raises inside the try
\* block, so the exception reaches the handler of line 164.
CU_Failed ==
    /\ CU_Polling
    /\ cu_status' \in {"ERROR", "FAILED"}
    /\ cu_poll_failed' = FALSE
    /\ cu_pc' = OnException(cu_attempt).pc
    /\ cu_result' = OnException(cu_attempt).result
    /\ UNCHANGED <<cu_max_attempts, cu_attempt>>
    /\ CU_Frame

\* Lines 153-158: PROCESSING_UPLOAD for too long, the API result is returned.
CU_ProcessingTooLong ==
    /\ CU_Polling
    /\ cu_attempt >= ProcessingSuccessAfter
    /\ cu_status' = "PROCESSING_UPLOAD"
    /\ cu_poll_failed' = FALSE
    /\ cu_pc' = "returned"
    /\ cu_result' = "result"
    /\ UNCHANGED <<cu_max_attempts, cu_attempt>>
    /\ CU_Frame

\* Lines 153-163: PROCESSING_UPLOAD early on, or any other status: next poll.
CU_Again ==
    /\ CU_Polling
    /\ \/ cu_attempt < ProcessingSuccessAfter /\ cu_status' = "PROCESSING_UPLOAD"
       \/ cu_status' = "OTHER"
    /\ cu_poll_failed' = FALSE
    /\ cu_attempt' = cu_attempt + 1
    /\ UNCHANGED <<cu_pc, cu_max_attempts, cu_result>>
    /\ CU_Frame

\* Lines 140-142 and 164-170: send_tiktok_request raises, or returns None and
\* the read of its headers raises.
CU_PollError ==
    /\ CU_Polling
    /\ cu_poll_failed' = TRUE
    /\ cu_pc' = OnException(cu_attempt).pc
    /\ cu_result' = OnException(cu_attempt).result
    /\ UNCHANGED <<cu_max_attempts, cu_attempt, cu_status>>
    /\ CU_Frame

\* Lines 172-177: the polls are used up (with max_attempts = 0 the read of
\* the unassigned status raises).
CU_Timeout ==
    /\ cu_pc = "loop"
    /\ ~(cu_attempt < cu_max_attempts)
    /\ IF cu_status = "PROCESSING_UPLOAD"
       THEN cu_pc' = "returned" /\ cu_result' = "result"
       ELSE cu_pc' = "raised" /\ UNCHANGED cu_result
    /\ UNCHANGED <<cu_max_attempts, cu_attempt, cu_status, cu_poll_failed>>
    /\ CU_Frame

CU_Next ==
    \/ CU_Success
    \/ CU_Failed
    \/ CU_ProcessingTooLong
    \/ CU_Again
    \/ CU_PollError
    \/ CU_Timeout

(***************************************************************************)
(* Specifications: one per routine, the other routines stay idle.          *)
(***************************************************************************)
DC_Idle ==
    /\ dc_pc = "idle"
    /\ durations = <<>>
    /\ min_duration = RInt(21)
    /\ max_duration = RInt(28)
    /\ total_duration = RInt(0)
    /\ base_loops = 0
    /\ sorted_indices = <<>>
    /\ pos = 1
    /\ instructions = <<>>
    /\ current_duration = RInt(0)
    /\ branch = "none"
    /\ partial_count = <<>>

FB_Idle ==
    /\ fb_pc = "idle"
    /\ videos = <<>>
    /\ target_duration = 0
    /\ min_videos = 0
    /\ all_videos = <<>>
    /\ selected_videos = <<>>
    /\ segments = <<>>
    /\ fb_current_duration = 0
    /\ last_video = 0
    /\ video = 0
    /\ segment_duration = 0
    /\ forbidden_ranges = <<>>
    /\ available_ranges = <<>>

PP_Init ==
    /\ v_paths = 0
    /\ v_instructions = <<>>
    /\ v_result = "none"
    /\ trimmed_videos = <<>>
    /\ loop_counts = <<>>
    /\ concat_list = <<>>

RS_Idle ==
    /\ rs_pc = "idle"
    /\ video_files = <<>>
    /\ min_count = 2
    /\ max_count = 6
    /\ selection_count = 0
    /\ rs_selected_videos = <<>>

TT_Idle ==
    /\ tt_pc = "idle"
    /\ tt_max_retries = DefaultMaxRetries
    /\ tt_retry = TRUE
    /\ tt_has_auth = TRUE
    /\ tt_stack = <<>>
    /\ tt_requests = 0
    /\ tt_refreshes = 0
    /\ tt_result = "unset"

CU_Idle ==
    /\ cu_pc = "idle"
    /\ cu_max_attempts = 30
    /\ cu_attempt = 0
    /\ cu_status = "unset"
    /\ cu_poll_failed = FALSE
    /\ cu_result = "unset"

DCInit == DC_Init /\ FB_Idle /\ PP_Init /\ RS_Idle /\ TT_Idle /\ CU_Idle
DCNext == DC_Next
DCSpec == DCInit /\ [][DCNext]_vars

VPInit == VP_Init /\ FB_Idle /\ PP_Init /\ RS_Idle /\ TT_Idle /\ CU_Idle
VPNext == DC_Next
VPSpec == VPInit /\ [][VPNext]_vars

FBInit == FB_Init /\ DC_Idle /\ PP_Init /\ RS_Idle /\ TT_Idle /\ CU_Idle
FBNext == FB_Next
FBSpec == FBInit /\ [][FBNext]_vars

\* random.choice draws every clip of selected_videos with the same
\* probability: a draw that stays possible is eventually made.
FBFairInit == FBInit /\ target_duration <= MaxFairTarget
FBFairSpec == FBFairInit /\ [][FBNext]_vars /\ WF_vars(FB_ChoiceAccepted)

RSInit == RS_Init /\ DC_Idle /\ FB_Idle /\ PP_Init /\ TT_Idle /\ CU_Idle
RSNext == RS_Next
RSSpec == RSInit /\ [][RSNext]_vars

TTInit == TT_Init /\ DC_Idle /\ FB_Idle /\ PP_Init /\ RS_Idle /\ CU_Idle
TTNext == TT_Next
TTSpec == TTInit /\ [][TTNext]_vars

CUInit == CU_Init /\ DC_Idle /\ FB_Idle /\ PP_Init /\ RS_Idle /\ TT_Idle
CUNext == CU_Next
CUSpec == CUInit /\ [][CUNext]_vars

(***************************************************************************)
(* Claims about DurationController.calculate_trim_instructions             *)
(***************************************************************************)
DC_Returned == dc_pc = "returned"
DC_Total == RSum(durations)
DC_TooShort == RLt(DC_Total, min_duration)
DC_TooLong == RLt(max_duration, DC_Total)
DC_Within == InBounds(DC_Total, min_duration, max_duration)
DC_Clips == 1..Len(durations)

\* C1: every plan calculate_trim_instructions returns has a total
\* sum((end_time - start_time) * loop_count) inside [min_duration,
\* max_duration], so validate_trim_instructions accepts it (the code has no
\* failing exit, so a returned plan is the only outcome).
C1_PlanTotalWithinBounds ==
    DC_Returned =>
        /\ InBounds(PlanTotal(instructions), min_duration, max_duration)
        /\ validate_trim_instructions(Len(durations), instructions,
                                       min_duration, max_duration)

\* C7: when the summed duration is already inside [min_duration,
\* max_duration], the plan is the identity instruction for every clip, in
\* input order: start_time 0, end_time the clip's duration, loop_count 1.
C7_IdentityPlan ==
    (DC_Returned /\ DC_Within) =>
        /\ Len(instructions) = Len(durations)
        /\ \A i \in DC_Clips :
              /\ instructions[i].start_time = RInt(0)
              /\ instructions[i].end_time = durations[i]
              /\ instructions[i].loop_count = 1

\* A returned identity plan over clips of different durations.
C7_Witness ==
    /\ DC_Returned
    /\ DC_Within
    /\ Len(durations) >= 2
    /\ durations[1] # durations[Len(durations)]
    /\ Len(instructions) = Len(durations)

\* The instructions of a plan that describe a partial play.
PartialInstructions ==
    {i \in DC_Clips : RLt(instructions[i].end_time, durations[i])}

\* C8: in the too-short case every instruction has loop_count >=
\* floor(min_duration / total); at most one instruction has an end_time below
\* its clip's duration; that clip got exactly one extra play, the partial one
\* (loop_count = base_loops + 1, the partial branch ran once for it); and the
\* partial branch never runs twice for a clip.
C8_LoopingMonotonicity ==
    (DC_Returned /\ DC_TooShort) =>
        LET base == RFloor(RDiv(min_duration, DC_Total)) IN
        /\ \A i \in DC_Clips : instructions[i].loop_count >= base
        /\ Cardinality(PartialInstructions) <= 1
        /\ \A i \in PartialInstructions :
              /\ instructions[i].loop_count = base + 1
              /\ partial_count[i] = 1
        /\ \A i \in DC_Clips : partial_count[i] <= 1

\* A returned plan of several clips in which the walk added a partial loop to
\* a clip that is not the last of the walk.
C8_Witness ==
    /\ DC_Returned
    /\ DC_TooShort
    /\ Len(durations) >= 2
    /\ Cardinality(PartialInstructions) = 1
    /\ \E i \in PartialInstructions : sorted_indices[Len(durations)] # i

FB_Returned == fb_pc = "returned"
FB_Segments == 1..Len(segments)
FB_ClipsUsed == {segments[i].video : i \in FB_Segments}

\* C2: whenever find_best_video_combination returns (target_duration > 0),
\* the durations of the returned segments sum to target_duration exactly.
C2_SumEqualsTarget ==
    (FB_Returned /\ target_duration > 0) =>
        SumDurations(segments) = target_duration

\* A returned plan of three segments whose last segment is a short closing
\* segment (remaining <= 1.0 s).
C2_Witness ==
    /\ FB_Returned
    /\ Len(segments) >= 3
    /\ segments[Len(segments)].duration < MinSegment

\* C3: whenever find_best_video_combination returns, at least min_videos
\* different clips appear among the returned segments.
C3_DistinctClips ==
    (FB_Returned /\ target_duration > 0) =>
        Cardinality(FB_ClipsUsed) >= min_videos

\* C4: in a returned plan any two segments of one clip are at least 2 s
\* apart in source-clip time (start of the later minus end of the earlier).
C4_Spacing ==
    FB_Returned =>
        \A i, j \in FB_Segments :
            (i # j /\ segments[i].video = segments[j].video) =>
                \/ segments[j].start - segments[i].end >= Buffer
                \/ segments[i].start - segments[j].end >= Buffer

\* Some accepted clip and segment duration for which the allocator finds a
\* range long enough, in the current state of the loop.
CanPlace(v, d) ==
    ValidRanges(AvailableRanges(videos[v] - d,
                                ForbiddenRanges(segments, v, videos[v])),
                d) # <<>>

\* The loop is running and every attempt it can make is abandoned (the drawn
\* clip is last_video, or no range of the clip is long enough): the state of
\* the plan never changes again and nothing raises.
FB_NoAttemptCanSucceed ==
    /\ fb_pc = "while"
    /\ fb_current_duration < target_duration
    /\ \A k \in 1..Len(selected_videos) :
         \/ ~Accepted(selected_videos[k], last_video)
         \/ \A d \in SegmentDurations(target_duration - fb_current_duration) :
                ~CanPlace(selected_videos[k], d)

\* C5: the number of placement attempts is bounded, no input makes the call
\* loop forever: the loop is never in a state in which every further attempt
\* is abandoned without the call raising.
C5_BoundedAttempts == ~FB_NoAttemptCanSucceed

\* C6: no two consecutive segments reference the same clip, in the returned
\* plan and at every point of the loop (also after abandoned attempts), and
\* last_video is the clip of the last appended segment.
C6_NoConsecutiveRepeat ==
    /\ \A i \in FB_Segments :
         i < Len(segments) => segments[i].video # segments[i + 1].video
    /\ last_video = IF segments = <<>> THEN 0
                    ELSE segments[Len(segments)].video

\* A returned plan of at least three segments that comes back to a clip it
\* used before.
C6_Witness ==
    /\ FB_Returned
    /\ Len(segments) >= 3
    /\ segments[1].video = segments[3].video

\* The points of the domain [0, max_start] and of the ranges are compared on
\* a grid of quarter seconds (twice the resolution of the range ends).
FB_MaxStart == videos[video] - segment_duration
FB_Available == 1..Len(available_ranges)
FB_Forbidden == 1..Len(forbidden_ranges)

\* C10: the available ranges computed for the drawn clip are the exact
\* complement of the union of its forbidden ranges within [0, max_start]:
\* pairwise disjoint, inside the domain, free of forbidden points, and
\* covering every domain point outside all forbidden ranges.
C10_ExactComplement ==
    (fb_pc = "alloc" /\ FB_MaxStart >= 0) =>
        /\ \A i, j \in FB_Available :
             i # j =>
               \/ available_ranges[i][2] <= available_ranges[j][1]
               \/ available_ranges[j][2] <= available_ranges[i][1]
        /\ \A i \in FB_Available :
             /\ 0 <= available_ranges[i][1]
             /\ available_ranges[i][1] <= available_ranges[i][2]
             /\ available_ranges[i][2] <= FB_MaxStart
        /\ \A i \in FB_Available, f \in FB_Forbidden :
             ~(\E x \in 0..(2 * videos[video]) :
                 /\ 2 * forbidden_ranges[f][1] <= x
                 /\ x <= 2 * forbidden_ranges[f][2]
                 /\ 2 * available_ranges[i][1] < x
                 /\ x < 2 * available_ranges[i][2])
        /\ \A x \in 0..(2 * FB_MaxStart) :
             (\A f \in FB_Forbidden :
                 x < 2 * forbidden_ranges[f][1] \/ 2 * forbidden_ranges[f][2] < x)
               => \E i \in FB_Available :
                     /\ 2 * available_ranges[i][1] <= x
                     /\ x <= 2 * available_ranges[i][2]

\* C11: a pool smaller than min_videos makes the call raise ValueError at
\* once, before the shuffle and before any segment exists; a pool of at least
\* min_videos clips never raises it.
C11_InsufficientSource ==
    /\ fb_pc = "raised" =>
         /\ Len(videos) < min_videos
         /\ all_videos = <<>>
         /\ selected_videos = <<>>
         /\ segments = <<>>
    /\ (fb_pc # "idle" /\ Len(videos) < min_videos) =>
         fb_pc \in {"call", "raised"}
    /\ (fb_pc # "idle" /\ Len(videos) >= min_videos) => fb_pc # "raised"

\* The call has raised on a non-empty pool one clip short of min_videos.
C11_Witness ==
    /\ fb_pc = "raised"
    /\ Len(videos) >= 1
    /\ Len(videos) + 1 = min_videos

\* C14: every segment of a returned plan lies inside its clip, is not empty,
\* and records duration = end - start.
C14_SegmentsInsideClips ==
    FB_Returned =>
        \A i \in FB_Segments :
            /\ 0 <= segments[i].start
            /\ segments[i].start < segments[i].end
            /\ segments[i].end <= videos[segments[i].video]
            /\ segments[i].duration = segments[i].end - segments[i].start

\* A returned plan with two segments of one clip, one of them placed after
\* the start of the clip, closed by a short last segment.
C14_Witness ==
    /\ FB_Returned
    /\ Len(segments) >= 3
    /\ segments[1].video = segments[3].video
    /\ segments[1].start > 0
    /\ segments[Len(segments)].duration < MinSegment

(***************************************************************************)
(* Further claims about DurationController                                 *)
(***************************************************************************)
\* C12: for a single clip shorter than min_duration (for example one clip of
\* 5 s against [21, 28]) calculate_trim_instructions does not return a plan
\* (it raises ValueError).
C12_SingleShortClipRaises ==
    (dc_pc # "idle" /\ Len(durations) = 1 /\ DC_TooShort) => ~DC_Returned

\* C13: every instruction of a returned plan has
\* 0 <= start_time < end_time <= duration of its clip and loop_count >= 1.
C13_InstructionsWellFormed ==
    DC_Returned =>
        \A i \in DC_Clips :
            /\ RLe(RInt(0), instructions[i].start_time)
            /\ RLt(instructions[i].start_time, instructions[i].end_time)
            /\ RLe(instructions[i].end_time, durations[i])
            /\ instructions[i].loop_count \in Nat
            /\ instructions[i].loop_count >= 1

\* A returned plan with a partial loop on one of several clips.
C13_Witness ==
    /\ DC_Returned
    /\ DC_TooShort
    /\ Len(durations) >= 2
    /\ \E i \in DC_Clips :
         /\ RLt(instructions[i].end_time, durations[i])
         /\ instructions[i].loop_count >= 2

\* The midpoint of the acceptable interval.
DC_Midpoint == RDiv(RAdd(min_duration, max_duration), RInt(2))

\* C15: a returned plan has one instruction per input clip and instruction i
\* is the one of clip i: it starts at 0 and ends at the duration of clip i
\* (or earlier, for the one clip cut by the partial loop) when nothing is
\* trimmed, and it keeps the middle of clip i, of length
\* duration[i] * midpoint / total, when the clips are trimmed.
C15_OneInstructionPerClip ==
    DC_Returned =>
        /\ Len(instructions) = Len(durations)
        /\ ~DC_TooLong =>
             \A i \in DC_Clips :
                /\ instructions[i].start_time = RInt(0)
                /\ \/ instructions[i].end_time = durations[i]
                   \/ /\ partial_count[i] = 1
                      /\ RLt(instructions[i].end_time, durations[i])
        /\ DC_TooLong =>
             \A i \in DC_Clips :
                /\ RAdd(instructions[i].start_time, instructions[i].end_time)
                     = durations[i]
                /\ RMul(RSub(instructions[i].end_time,
                             instructions[i].start_time), DC_Total)
                     = RMul(durations[i], DC_Midpoint)

\* A returned looping plan whose walk order differs from the input order: the
\* longest clip is not the first one, and it got an extra loop.
C15_Witness ==
    /\ DC_Returned
    /\ DC_TooShort
    /\ Len(durations) >= 2
    /\ sorted_indices[1] # 1
    /\ durations[sorted_indices[1]] # durations[1]
    /\ instructions[sorted_indices[1]].loop_count > base_loops

\* The single clip of 4 s against the default interval [21, 28].
DC_Clip4Default ==
    /\ DC_Returned
    /\ durations = <<RInt(4)>>
    /\ min_duration = RInt(21)
    /\ max_duration = RInt(28)

DC_Validated == dc_pc = "validated"

\* C16: validate_trim_instructions(paths, instructions) returns True exactly
\* when the two lists have the same length and the sum of
\* (end_time - start_time) * loop_count lies in [min_duration, max_duration];
\* for lists of different length it returns False.  The value is a function
\* of the two arguments and the configured bounds alone.
C16_ValidateExact ==
    DC_Validated =>
        /\ v_result \in BOOLEAN
        /\ v_result <=>
              /\ v_paths = Len(v_instructions)
              /\ InBounds(PlanTotal(v_instructions),
                          min_duration, max_duration)
        /\ (v_paths # Len(v_instructions)) => (v_result = FALSE)

\* Lists of different length whose total is inside the interval: rejected.
C16_Witness ==
    /\ DC_Validated
    /\ v_paths # Len(v_instructions)
    /\ InBounds(PlanTotal(v_instructions), min_duration, max_duration)
    /\ v_result = FALSE

(***************************************************************************)
(* VideoProcessor.process: from the plan to the concatenation list         *)
(***************************************************************************)
VP_Concatenated == dc_pc = "concatenated"

\* C18: the materializer honours the plan: every trimmed clip appears in the
\* concatenation list loop_count times, consecutively and in plan order, so
\* the duration of the assembled timeline equals the plan total.
C18_MaterializerHonoursPlan ==
    VP_Concatenated =>
        /\ concat_list = ConcatList(trimmed_videos, loop_counts)
        /\ TimelineDuration(concat_list) = PlanTotal(instructions)

(***************************************************************************)
(* select_random_videos                                                    *)
(***************************************************************************)
RS_Returned == rs_pc = "returned"
RS_Raised == rs_pc = "raised"

\* The three conditions of lines 20-27.
RS_Rejected ==
    \/ video_files = <<>>
    \/ min_count > max_count
    \/ Len(video_files) < min_count

\* C19: when select_random_videos returns, the result has k elements with
\* min_count <= k <= min(max_count, len(video_files)), every element is taken
\* from video_files, and no list position is selected twice.
C19_SelectionWithinCounts ==
    RS_Returned =>
        LET k == Len(rs_selected_videos) IN
        /\ min_count <= k
        /\ k <= max_count
        /\ k <= Len(video_files)
        /\ \A i \in 1..k : rs_selected_videos[i] \in 1..Len(video_files)
        /\ \A i, j \in 1..k :
              i # j => rs_selected_videos[i] # rs_selected_videos[j]

\* A proper selection of at least two files from a longer list.
C19_Witness ==
    /\ RS_Returned
    /\ Len(rs_selected_videos) >= 2
    /\ Len(rs_selected_videos) < Len(video_files)
    /\ min_count < max_count

\* C20: select_random_videos raises ValueError, with nothing selected, exactly
\* when video_files is empty, or min_count > max_count, or
\* len(video_files) < min_count; for every other input it returns a selection.
C20_RaisesExactlyWhenRejected ==
    /\ RS_Raised => (RS_Rejected /\ rs_selected_videos = <<>>)
    /\ RS_Returned => ~RS_Rejected

(***************************************************************************)
(* VideoProcessor.process: the controller configured from the audio        *)
(***************************************************************************)
\* C21: in VideoProcessor.process the DurationController is configured with
\* a well-formed acceptable interval (min_duration <= max_duration), and the
\* plan it returns has a total of at least the audio duration min_duration.
C21_VideoMatchesAudio ==
    /\ dc_pc # "idle" => RLe(min_duration, max_duration)
    /\ DC_Returned => RLe(min_duration, PlanTotal(instructions))

DC_LoopReturned == DC_Returned /\ branch = "loop"

\* The time instruction i plays: (end_time - start_time) * loop_count.
DC_Played(i) ==
    RMul(RSub(instructions[i].end_time, instructions[i].start_time),
         RInt(instructions[i].loop_count))

\* C22: in the too-short branch every clip is played in full at least
\* base_loops times, (end_time - start_time) * loop_count >=
\* base_loops * duration, and the plan total equals the running total
\* current_duration of the walk, also when a partial play was added.
C22_BaseLoopsInFull ==
    DC_LoopReturned =>
        /\ \A i \in DC_Clips :
              RLe(RMul(RInt(base_loops), durations[i]), DC_Played(i))
        /\ PlanTotal(instructions) = current_duration

\* The length instruction i retains of its clip: end_time - start_time.
DC_Retained(i) == RSub(instructions[i].end_time, instructions[i].start_time)

DC_ExtraPlays == {i \in DC_Clips : instructions[i].loop_count > base_loops}

\* Clip i comes before clip j in descending-duration order, ties by input
\* order.
DC_Before(i, j) ==
    \/ RLt(durations[j], durations[i])
    \/ durations[i] = durations[j] /\ i < j

\* C25: in the too-short branch the extra plays go out in descending-duration
\* order, ties broken by input order: a clip has an extra play only if every
\* longer clip, and every equally long clip earlier in the input, has one.
C25_ExtraPlaysLongestFirst ==
    DC_LoopReturned =>
        \A j \in DC_ExtraPlays : \A i \in DC_Clips :
            DC_Before(i, j) => i \in DC_ExtraPlays

\* Of two equally long clips only the earlier one got an extra play.
C25_Witness ==
    /\ DC_LoopReturned
    /\ \E i, j \in DC_Clips :
          /\ i < j
          /\ durations[i] = durations[j]
          /\ i \in DC_ExtraPlays
          /\ j \notin DC_ExtraPlays

FB_InLoop == fb_pc \in {"while", "picked", "alloc", "returned"}

\* C28: at every iteration of the composition loop
\* 0 <= current_duration <= target_duration, and a chosen segment duration
\* never exceeds the remaining amount; so the overage adjustment never changes
\* a segment: every segment keeps end = start + duration and the durations
\* add up to current_duration.
C28_NeverOverTarget ==
    FB_InLoop =>
        /\ 0 <= fb_current_duration
        /\ fb_current_duration <= target_duration
        /\ fb_pc = "alloc" =>
              segment_duration <= target_duration - fb_current_duration
        /\ \A i \in FB_Segments :
              segments[i].end = segments[i].start + segments[i].duration
        /\ SumDurations(segments) = fb_current_duration

\* The loop is left by a segment of 1.5 s that exactly fills the remainder.
C28_Witness ==
    /\ FB_Returned
    /\ Len(segments) >= 2
    /\ segments[Len(segments)].duration = MaxSegment
    /\ fb_current_duration = target_duration

FB_Rerolling == fb_pc = "picked" /\ ~Accepted(video, last_video)

\* C27: with min_videos >= 2 (the clips of the pool are pairwise distinct)
\* the re-roll loop terminates: under fair random choice every iteration of
\* the composition loop eventually holds a clip different from last_video.
C27_RerollTerminates ==
    (fb_pc = "picked" /\ min_videos >= 2)
        ~> (fb_pc = "picked" /\ Accepted(video, last_video))

\* The clip of the last segment was drawn again: a re-roll is due.
C27_Witness ==
    /\ FB_Rerolling
    /\ min_videos >= 2
    /\ Len(segments) >= 1
    /\ video = segments[Len(segments)].video

(***************************************************************************)
(* Claims about the TikTok upload helpers                                  *)
(***************************************************************************)
TT_Returned == tt_pc = "returned"

\* C29: a call of send_tiktok_request either returns a response that passed
\* raise_for_status or raises; it never returns None (so max_retries HTTP 500
\* responses in a row, or max_retries network errors, end in a raise), and it
\* sends at most max_retries requests plus one retry after a token refresh.
C29_ResponseOrRaise ==
    /\ TT_Returned => tt_result = "response"
    /\ tt_pc # "idle" => tt_requests <= tt_max_retries + 1

CU_Returned == cu_pc = "returned"

\* C30: check_upload_status never reports success after the API reported
\* ERROR or FAILED: such a status makes the call raise, whatever the number
\* of earlier polls, and a result is returned only when the last status was
\* SUCCESS or PROCESSING_UPLOAD or the poll itself failed.
C30_NoSuccessAfterFailure ==
    /\ cu_status \in {"ERROR", "FAILED"} => cu_pc = "raised"
    /\ CU_Returned =>
          \/ cu_status \in {"SUCCESS", "PROCESSING_UPLOAD"}
          \/ cu_poll_failed

====
